---- MODULE Spec2Model ----
(***************************************************************************)
(* Model of src/main.py: the SearchCache (TTL + oldest-first eviction),    *)
(* the markup extractors, and the /search handler run by concurrent tasks  *)
(* that suspend only at the two upstream round-trips.                      *)
(***************************************************************************)
EXTENDS Integers, Sequences, FiniteSets, TLC

(* ------------------------------ bounds --------------------------------- *)
\* largest value of the monotonic clock
MaxTime == 2
\* SearchCache(ttl=...)
Ttl == 1
\* SearchCache(max_size=...): the capacity the store is built with; the tasks
\* ask for more keys than it holds, so that a full store meets a new key
MaxSize == 2

\* most page links, hidden controls and result rows in a document handed to
\* an extractor on its own
MaxLinks == 3
MaxInputs == 3
MaxRows == 2

\* Query(1, ge=1, le=100)
PAGE_GE == 1
PAGE_LE == 100

Tasks == {1, 2}
Queries == {"a"}
\* the pages the tasks ask for: the first (no POST), the second (the least that
\* posts) and the last the route admits
Pages == {PAGE_GE, PAGE_GE + 1, PAGE_LE}

LEX_BASE_URL == "https://lex.uz"

(* ------------------------- Python string helpers ----------------------- *)
Digits == <<"0", "1", "2", "3", "4", "5", "6", "7", "8", "9">>

IsDigit(ch) == \E i \in 1..10 : Digits[i] = ch

DigitVal(ch) == (CHOOSE i \in 1..10 : Digits[i] = ch) - 1

\* str(n) for an int n >= 0
RECURSIVE str(_)
str(n) == IF n < 10 THEN Digits[n + 1] ELSE str(n \div 10) \o Digits[(n % 10) + 1]

\* s.zfill(width) for a string without a sign
RECURSIVE zfill(_, _)
zfill(s, width) == IF Len(s) >= width THEN s ELSE zfill("0" \o s, width)

\* int(s) of a stripped label: an optional sign and one or more decimal
\* digits, anything else raises ValueError (ok = FALSE)
RECURSIVE DigitsVal(_, _)
DigitsVal(s, acc) ==
    IF Len(s) = 0 THEN acc
    ELSE DigitsVal(SubSeq(s, 2, Len(s)), acc * 10 + DigitVal(SubSeq(s, 1, 1)))

AllDigits(s) == Len(s) > 0 /\ \A i \in 1..Len(s) : IsDigit(SubSeq(s, i, i))

int(s) ==
    IF Len(s) > 0 /\ SubSeq(s, 1, 1) \in {"+", "-"}
    THEN LET rest == SubSeq(s, 2, Len(s)) IN
         IF AllDigits(rest)
         THEN [ok |-> TRUE,
               n |-> IF SubSeq(s, 1, 1) = "-" THEN 0 - DigitsVal(rest, 0)
                     ELSE DigitsVal(rest, 0)]
         ELSE [ok |-> FALSE, n |-> 0]
    ELSE IF AllDigits(s) THEN [ok |-> TRUE, n |-> DigitsVal(s, 0)]
         ELSE [ok |-> FALSE, n |-> 0]

Max(a, b) == IF a >= b THEN a ELSE b

\* d.get(k, default) on a dict modelled as a function
DictGet(d, k, default) == IF k \in DOMAIN d THEN d[k] ELSE default

(* ------------------------------ markup --------------------------------- *)
\* A parsed document: its hidden <input> controls in document order, the
\* results container and the pagination table.
NoneVal == [kind |-> "none"]
Text(s) == [kind |-> "text", text |-> s]

Input(name, hasvalue, value) == [name |-> name, hasvalue |-> hasvalue, value |-> value]

Row(number, link, badge, icon) ==
    [number |-> number, link |-> link, badge |-> badge, icon |-> icon]

Link(text, hashref, href) ==
    [kind |-> "link", text |-> text, hashref |-> hashref, href |-> href]

Icon(classes) == [kind |-> "icon", classes |-> classes]

PageA ==
    [inputs |-> << Input("__VIEWSTATE", TRUE, "vs1"),
                   Input("__VIEWSTATEGENERATOR", TRUE, "g1"),
                   Input("__EVENTVALIDATION", TRUE, "ev1") >>,
     results |-> [kind |-> "table",
                  rows |-> << Row(Text("42"), Link("Test Document", TRUE, "/docs/100"),
                                  Text("Zakon"), Icon({"fa", "status_code_y"})) >>],
     paging |-> [kind |-> "table", links |-> << "1", "2", "3" >>]]

PageNoState ==
    [inputs |-> << >>,
     results |-> [kind |-> "none", rows |-> << >>],
     paging |-> [kind |-> "none", links |-> << >>]]

PageEmptyState ==
    [inputs |-> << Input("__VIEWSTATE", FALSE, ""),
                   Input("__EVENTVALIDATION", TRUE, "ev1") >>,
     results |-> [kind |-> "notable", rows |-> << >>],
     paging |-> [kind |-> "table", links |-> << >>]]

Docs == {PageA, PageNoState, PageEmptyState}

AspFieldNames == << "__VIEWSTATE", "__VIEWSTATEGENERATOR", "__EVENTVALIDATION" >>

\* soup.find("input", {"name": field_name}): index of the first match, 0 if none
FindInput(doc, name) ==
    IF \E i \in 1..Len(doc.inputs) : doc.inputs[i].name = name
    THEN CHOOSE i \in 1..Len(doc.inputs) :
            /\ doc.inputs[i].name = name
            /\ \A j \in 1..(i - 1) : doc.inputs[j].name # name
    ELSE 0

\* an absent control reported with an empty placeholder
extract_asp_fields_placeholder(doc) ==
    [n \in {AspFieldNames[i] : i \in 1..3} |->
        IF FindInput(doc, n) = 0 THEN ""
        ELSE LET field == doc.inputs[FindInput(doc, n)]
             IN IF field.hasvalue THEN field.value ELSE ""]

extract_asp_fields(doc) ==
    LET present == {n \in {AspFieldNames[i] : i \in 1..3} : FindInput(doc, n) # 0}
    IN [n \in present |->
            LET field == doc.inputs[FindInput(doc, n)]
            IN IF field.hasvalue THEN field.value ELSE ""]

RECURSIVE MaxLabel(_, _)
MaxLabel(links, max_page) ==
    IF Len(links) = 0 THEN max_page
    ELSE LET page_num == int(Head(links))
         IN MaxLabel(Tail(links),
                     IF page_num.ok THEN Max(max_page, page_num.n) ELSE max_page)

\* the page links counted instead of read
get_total_pages_count(doc) ==
    IF doc.paging.kind = "none" THEN 1
    ELSE IF Len(doc.paging.links) = 0 THEN 1
    ELSE Len(doc.paging.links)

get_total_pages(doc) ==
    IF doc.paging.kind = "none" THEN 1
    ELSE IF Len(doc.paging.links) = 0 THEN 1
    ELSE MaxLabel(doc.paging.links, 1)

\* a label that does not parse reported as number 0
ParseRow_zero(row) ==
    LET parsed == IF row.number.kind = "text" THEN int(row.number.text)
                  ELSE [ok |-> FALSE, n |-> 0]
        title == IF row.link.kind = "link" THEN row.link.text ELSE ""
        href == IF row.link.kind = "link" /\ row.link.hashref THEN row.link.href ELSE ""
        doc_url == IF Len(href) > 0 /\ SubSeq(href, 1, 1) = "/"
                   THEN LEX_BASE_URL \o href ELSE href
        badge == IF row.badge.kind = "text" THEN row.badge ELSE NoneVal
        status == IF row.icon.kind = "icon" /\ "status_code_y" \in row.icon.classes
                  THEN "active" ELSE "inactive"
    IN [number |-> [kind |-> "int", n |-> parsed.n], title |-> title, url |-> doc_url,
        badge |-> badge, status |-> status]

ParseRow(row) ==
    LET parsed == IF row.number.kind = "text" THEN int(row.number.text)
                  ELSE [ok |-> FALSE, n |-> 0]
        number == IF parsed.ok THEN [kind |-> "int", n |-> parsed.n] ELSE NoneVal
        title == IF row.link.kind = "link" THEN row.link.text ELSE ""
        href == IF row.link.kind = "link" /\ row.link.hashref THEN row.link.href ELSE ""
        doc_url == IF Len(href) > 0 /\ SubSeq(href, 1, 1) = "/"
                   THEN LEX_BASE_URL \o href ELSE href
        badge == IF row.badge.kind = "text" THEN row.badge ELSE NoneVal
        status == IF row.icon.kind = "icon" /\ "status_code_y" \in row.icon.classes
                  THEN "active" ELSE "inactive"
    IN [number |-> number, title |-> title, url |-> doc_url,
        badge |-> badge, status |-> status]

parse_documents(doc) ==
    IF doc.results.kind # "table" THEN << >>
    ELSE [i \in 1..Len(doc.results.rows) |-> ParseRow(doc.results.rows[i])]

SearchResponse(documents, current_page, total_pages) ==
    [documents |-> documents, current_page |-> current_page,
     total_pages |-> total_pages]

(* ---------------------------- SearchCache ------------------------------ *)
\* self._cache: a dict kept in insertion order, as a sequence of entries
Entry(key, ts, value) == [key |-> key, ts |-> ts, value |-> value]

Has(c, key) == \E i \in 1..Len(c) : c[i].key = key

IndexOf(c, key) == CHOOSE i \in 1..Len(c) : c[i].key = key

Remove(c, i) == SubSeq(c, 1, i - 1) \o SubSeq(c, i + 1, Len(c))

Absent == [kind |-> "absent"]
Some(value) == [kind |-> "some", value |-> value]

\* get that expires an entry one tick early
CacheGet_early(c, key, t) ==
    IF Has(c, key)
    THEN LET e == c[IndexOf(c, key)] IN
         IF t - e.ts + 1 < Ttl
         THEN [ret |-> Some(e.value), cache |-> c]
         ELSE [ret |-> Absent, cache |-> Remove(c, IndexOf(c, key))]
    ELSE [ret |-> Absent, cache |-> c]

\* get that still serves an entry whose age equals the ttl
CacheGet_late(c, key, t) ==
    IF Has(c, key)
    THEN LET e == c[IndexOf(c, key)] IN
         IF t - e.ts <= Ttl
         THEN [ret |-> Some(e.value), cache |-> c]
         ELSE [ret |-> Absent, cache |-> Remove(c, IndexOf(c, key))]
    ELSE [ret |-> Absent, cache |-> c]

\* get that leaves an expired entry in the store
CacheGet_keeps(c, key, t) ==
    IF Has(c, key)
    THEN LET e == c[IndexOf(c, key)] IN
         IF t - e.ts < Ttl
         THEN [ret |-> Some(e.value), cache |-> c]
         ELSE [ret |-> Absent, cache |-> c]
    ELSE [ret |-> Absent, cache |-> c]

\* get that marks the entry it serves as the most recently used
CacheGet_lru(c, key, t) ==
    IF Has(c, key)
    THEN LET e == c[IndexOf(c, key)] IN
         IF t - e.ts < Ttl
         THEN [ret |-> Some(e.value),
               cache |-> Append(Remove(c, IndexOf(c, key)), Entry(key, t, e.value))]
         ELSE [ret |-> Absent, cache |-> Remove(c, IndexOf(c, key))]
    ELSE [ret |-> Absent, cache |-> c]

\* SearchCache.get at clock value t: the returned value and the store after
CacheGet(c, key, t) ==
    IF Has(c, key)
    THEN LET e == c[IndexOf(c, key)] IN
         IF t - e.ts < Ttl
         THEN [ret |-> Some(e.value), cache |-> c]
         ELSE [ret |-> Absent, cache |-> Remove(c, IndexOf(c, key))]
    ELSE [ret |-> Absent, cache |-> c]

\* max in place of min: the newest entry is chosen
Oldest_newest(c) ==
    CHOOSE i \in 1..Len(c) :
        /\ \A j \in 1..Len(c) : c[i].ts >= c[j].ts
        /\ \A j \in 1..(i - 1) : c[j].ts < c[i].ts

\* min(self._cache, key=lambda k: self._cache[k][0]): the first entry, in
\* iteration order, with the least timestamp
Oldest(c) ==
    CHOOSE i \in 1..Len(c) :
        /\ \A j \in 1..Len(c) : c[i].ts <= c[j].ts
        /\ \A j \in 1..(i - 1) : c[j].ts > c[i].ts

\* set that evicts only when the store is over capacity (> in place of >=)
CacheSet_over(c, key, value, t) ==
    LET c1 == IF Len(c) > MaxSize THEN Remove(c, Oldest(c)) ELSE c
    IN IF Has(c1, key)
       THEN [c1 EXCEPT ![IndexOf(c1, key)] = Entry(key, t, value)]
       ELSE Append(c1, Entry(key, t, value))

\* set that makes room by dropping every expired entry, the oldest entry
\* only if none has expired
CacheSet_purges(c, key, value, t) ==
    LET Fresh(e) == t - e.ts < Ttl
        c1 == IF Len(c) >= MaxSize
              THEN IF \E i \in 1..Len(c) : ~Fresh(c[i])
                   THEN SelectSeq(c, Fresh)
                   ELSE Remove(c, Oldest(c))
              ELSE c
    IN IF Has(c1, key)
       THEN [c1 EXCEPT ![IndexOf(c1, key)] = Entry(key, t, value)]
       ELSE Append(c1, Entry(key, t, value))

\* SearchCache.set at clock value t: the store after
CacheSet(c, key, value, t) ==
    LET c1 == IF Len(c) >= MaxSize THEN Remove(c, Oldest(c)) ELSE c
    IN IF Has(c1, key)
       THEN [c1 EXCEPT ![IndexOf(c1, key)] = Entry(key, t, value)]
       ELSE Append(c1, Entry(key, t, value))

(* --------------------------- /search handler --------------------------- *)
\* upstream replies to one round-trip: a success status with a document, a
\* failure status (raise_for_status raises HTTPStatusError), or a transport
\* failure (httpx.RequestError)
Statuses == {404, 500}

Reply(kind, status, doc) == [kind |-> kind, status |-> status, doc |-> doc]

Replies ==
    {Reply("ok", 200, d) : d \in Docs}
    \cup {Reply("status", s, PageNoState) : s \in Statuses}
    \cup {Reply("transport", 0, PageNoState)}

NoOut == [kind |-> "none"]
Ok(value) == [kind |-> "ok", value |-> value]
HTTPException(status_code, detail) ==
    [kind |-> "error", status |-> status_code, detail |-> detail]

NoData == [kind |-> "none"]
GetRequest == [method |-> "GET", data |-> NoData]
PostRequest(data) == [method |-> "POST", data |-> data]

\* the key built with nothing between the query and the page
cache_key_no_separator(searchtitle, page) == searchtitle \o str(page)

\* the key built from the query alone
cache_key_query_only(searchtitle, page) == searchtitle

cache_key(searchtitle, page) == searchtitle \o ":" \o str(page)

Keys == {cache_key(q, p) : q \in Queries, p \in Pages}

\* the index written without padding
page_index_unpadded(page) == str(page - 1)

page_index(page) == zfill(str(page - 1), 2)

event_target(page) ==
    "ucFoundActsControl$rptPaging$ctl" \o page_index(page) \o "$lbPaging"

\* the payload built without the event validation field
post_data_no_validation(asp_fields, page) ==
    [kind |-> "form",
     EVENTTARGET |-> event_target(page),
     EVENTARGUMENT |-> "",
     VIEWSTATE |-> DictGet(asp_fields, "__VIEWSTATE", ""),
     VIEWSTATEGENERATOR |-> DictGet(asp_fields, "__VIEWSTATEGENERATOR", ""),
     EVENTVALIDATION |-> ""]

post_data(asp_fields, page) ==
    [kind |-> "form",
     EVENTTARGET |-> event_target(page),
     EVENTARGUMENT |-> "",
     VIEWSTATE |-> DictGet(asp_fields, "__VIEWSTATE", ""),
     VIEWSTATEGENERATOR |-> DictGet(asp_fields, "__VIEWSTATEGENERATOR", ""),
     EVENTVALIDATION |-> DictGet(asp_fields, "__EVENTVALIDATION", "")]

\* the check dropped: the POST is built whatever was extracted
ViewStateMissing_never(asp_fields) == FALSE

\* not asp_fields.get("__VIEWSTATE"): the key is missing or its value is ""
ViewStateMissing(asp_fields) ==
    ~("__VIEWSTATE" \in DOMAIN asp_fields /\ asp_fields["__VIEWSTATE"] # "")

\* What one synchronous stretch of the handler does: the store after it, where
\* the task is next, what it has returned or raised, the upstream requests it
\* issued, and whether it called cache.set
Effect(c, pc, out, reqs, wrote) ==
    [cache |-> c, pc |-> pc, out |-> out, reqs |-> reqs, wrote |-> wrote]

\* a failed round-trip answered by asking upstream again
Failure_retries(c, r) == Effect(c, "get", NoOut, << GetRequest >>, FALSE)

\* every upstream status reported as a plain 500
Failure_flat(c, r) ==
    IF r.kind = "status"
    THEN Effect(c, "failed",
                HTTPException(500, "Error fetching data from lex.uz"),
                << >>, FALSE)
    ELSE Effect(c, "failed", HTTPException(503, "Connection error"), << >>, FALSE)

\* the except clauses: HTTPStatusError and RequestError
Failure(c, r) ==
    IF r.kind = "status"
    THEN Effect(c, "failed",
                HTTPException(r.status, "Error fetching data from lex.uz"),
                << >>, FALSE)
    ELSE Effect(c, "failed", HTTPException(503, "Connection error"), << >>, FALSE)

\* from the call to the first await: cache lookup, then the GET is issued
OnCall(c, searchtitle, page, t) ==
    LET cached == CacheGet(c, cache_key(searchtitle, page), t)
    IN IF cached.ret.kind = "some"
       THEN Effect(cached.cache, "done", Ok(cached.ret.value), << >>, FALSE)
       ELSE Effect(cached.cache, "get", NoOut, << GetRequest >>, FALSE)

\* from the GET's completion to the return (page 1), the raise, or the POST
OnGetReply(c, searchtitle, page, r, t) ==
    IF r.kind # "ok" THEN Failure(c, r)
    ELSE IF page = 1
    THEN LET result == SearchResponse(parse_documents(r.doc), 1, get_total_pages(r.doc))
         IN Effect(CacheSet(c, cache_key(searchtitle, page), result, t),
                   "done", Ok(result), << >>, TRUE)
    ELSE LET asp_fields == extract_asp_fields(r.doc)
         IN IF ViewStateMissing(asp_fields)
            THEN Effect(c, "failed",
                        HTTPException(500, "Could not extract ViewState from lex.uz"),
                        << >>, FALSE)
            ELSE Effect(c, "post", NoOut,
                        << PostRequest(post_data(asp_fields, page)) >>, FALSE)

\* the result stored before raise_for_status is consulted
OnPostReply_storesfirst(c, searchtitle, page, r, t) ==
    LET result == SearchResponse(parse_documents(r.doc), page, get_total_pages(r.doc))
        stored == CacheSet(c, cache_key(searchtitle, page), result, t)
    IN IF r.kind # "ok" THEN Failure(stored, r)
       ELSE Effect(stored, "done", Ok(result), << >>, TRUE)

\* from the POST's completion to the return or the raise
OnPostReply(c, searchtitle, page, r, t) ==
    IF r.kind # "ok" THEN Failure(c, r)
    ELSE LET result == SearchResponse(parse_documents(r.doc), page,
                                      get_total_pages(r.doc))
         IN Effect(CacheSet(c, cache_key(searchtitle, page), result, t),
                   "done", Ok(result), << >>, TRUE)

(* ------------------------------- state --------------------------------- *)
VARIABLES
    cache,    \* app.state.cache._cache
    now,      \* monotonic()
    pc,       \* per task: idle, get (awaiting client.get), post (awaiting client.post)
    call,     \* per task: the arguments of the call it is running
    sent,     \* per task: the upstream requests its call has issued so far
    ev,       \* what a search task did in the latest step, if one ran: the task and
              \* its arguments, the store before, the reply it consumed,
              \* all requests of the call so far, and what it returned or raised
    origin,   \* per key: the result returned by the search call that stored the
              \* entry now held for the key (for a direct set: the value it was given)
    last      \* the direct call made in the latest step, if one was: a
              \* SearchCache.get / set (its arguments, the clock, the store before
              \* it and what it returned) or an extractor (its document and result)

vars == << cache, now, pc, call, sent, ev, origin, last >>

NoCall == [kind |-> "none"]
NoLast == [op |-> "none"]
NoEvent == [step |-> "none"]
NoEntry == [kind |-> "none"]
NoReply == [kind |-> "none"]

\* the entry the store c holds for key, if any
Found(c, key) ==
    IF Has(c, key)
    THEN [kind |-> "entry", ts |-> c[IndexOf(c, key)].ts,
          value |-> c[IndexOf(c, key)].value]
    ELSE NoEntry

Init ==
    /\ cache = << >>
    /\ now = 0
    /\ pc = [t \in Tasks |-> "idle"]
    /\ call = [t \in Tasks |-> NoCall]
    /\ sent = [t \in Tasks |-> << >>]
    /\ ev = NoEvent
    /\ origin = [k \in Keys |-> NoOut]
    /\ last = NoLast

\* the result recorded for each key still stored, after a stretch that may
\* have stored `key`
Origin(c, key, e) ==
    [k \in Keys |->
        IF ~Has(c, k) THEN NoOut
        ELSE IF k = key /\ e.wrote THEN e.out
        ELSE origin[k]]

\* task t, running search(q, p) with requests `reqs` issued before, has run
\* the stretch `step` with effect e, consuming `reply`
Apply(step, t, q, p, reqs, reply, e) ==
    /\ cache' = e.cache
    /\ origin' = Origin(e.cache, cache_key(q, p), e)
    /\ ev' = [step |-> step, task |-> t, q |-> q, p |-> p,
              pre |-> cache, reply |-> reply,
              to |-> e.pc, sent |-> reqs \o e.reqs, out |-> e.out, wrote |-> e.wrote]
    /\ last' = NoLast
    /\ IF e.pc \in {"get", "post"}
       THEN /\ pc' = [pc EXCEPT ![t] = e.pc]
            /\ call' = [call EXCEPT ![t] = [kind |-> "call", q |-> q, p |-> p]]
            /\ sent' = [sent EXCEPT ![t] = reqs \o e.reqs]
       ELSE /\ pc' = [pc EXCEPT ![t] = "idle"]
            /\ call' = [call EXCEPT ![t] = NoCall]
            /\ sent' = [sent EXCEPT ![t] = << >>]

\* a call that finds a GET for its (query, page) in flight waits for that one
\* and issues none of its own
Call_joins(t, q, p) ==
    /\ pc[t] = "idle"
    /\ \A u \in Tasks : u < t => pc[u] # "idle"
    /\ Apply("call", t, q, p, << >>, NoReply,
             IF \E u \in Tasks : /\ pc[u] = "get"
                                 /\ call[u] = [kind |-> "call", q |-> q, p |-> p]
             THEN Effect(cache, "get", NoOut, << >>, FALSE)
             ELSE OnCall(cache, q, p, now))
    /\ UNCHANGED now

\* a request arrives, is given the first free task, and is handled up to its
\* first await
Call(t, q, p) ==
    /\ pc[t] = "idle"
    /\ \A u \in Tasks : u < t => pc[u] # "idle"
    /\ Apply("call", t, q, p, << >>, NoReply, OnCall(cache, q, p, now))
    /\ UNCHANGED now

\* the GET completes and the handler runs on to its next await or its end
GetReply(t, r) ==
    /\ pc[t] = "get"
    /\ Apply("get_reply", t, call[t].q, call[t].p, sent[t], r,
             OnGetReply(cache, call[t].q, call[t].p, r, now))
    /\ UNCHANGED now

\* the POST completes and the handler runs to its end
PostReply(t, r) ==
    /\ pc[t] = "post"
    /\ Apply("post_reply", t, call[t].q, call[t].p, sent[t], r,
             OnPostReply(cache, call[t].q, call[t].p, r, now))
    /\ UNCHANGED now

\* a cancelled task that stores an empty result on its way out
Cancel_stores(t) ==
    /\ pc[t] \in {"get", "post"}
    /\ pc' = [pc EXCEPT ![t] = "idle"]
    /\ call' = [call EXCEPT ![t] = NoCall]
    /\ sent' = [sent EXCEPT ![t] = << >>]
    /\ cache' = CacheSet(cache, cache_key(call[t].q, call[t].p),
                         SearchResponse(<< >>, call[t].p, 1), now)
    /\ origin' = Origin(cache', cache_key(call[t].q, call[t].p),
                        [wrote |-> TRUE, out |-> Ok(SearchResponse(<< >>, call[t].p, 1))])
    /\ ev' = [step |-> "cancel", task |-> t, q |-> call[t].q, p |-> call[t].p,
              pre |-> cache, reply |-> NoReply, to |-> "cancelled", sent |-> sent[t],
              out |-> NoOut, wrote |-> TRUE]
    /\ last' = NoLast
    /\ UNCHANGED now

\* the calling context cancels the task while it is suspended at an await:
\* CancelledError is raised there and no except clause of the handler takes it
Cancel(t) ==
    /\ pc[t] \in {"get", "post"}
    /\ pc' = [pc EXCEPT ![t] = "idle"]
    /\ call' = [call EXCEPT ![t] = NoCall]
    /\ sent' = [sent EXCEPT ![t] = << >>]
    /\ ev' = [step |-> "cancel", task |-> t, q |-> call[t].q, p |-> call[t].p,
              pre |-> cache, reply |-> NoReply, to |-> "cancelled", sent |-> sent[t],
              out |-> NoOut, wrote |-> FALSE]
    /\ last' = NoLast
    /\ UNCHANGED << cache, now, origin >>

\* the monotonic clock advances
Tick ==
    /\ now < MaxTime
    /\ now' = now + 1
    /\ ev' = NoEvent
    /\ last' = NoLast
    /\ UNCHANGED << cache, pc, call, sent, origin >>

\* the values a direct caller stores: results of page-1 searches
Values == {SearchResponse(parse_documents(d), 1, get_total_pages(d)) : d \in Docs}

\* a direct cache.get(key), as the cache tests make
Get(key) ==
    /\ LET g == CacheGet(cache, key, now)
       IN /\ cache' = g.cache
          /\ last' = [op |-> "get", key |-> key, arg |-> Absent, at |-> now,
                      pre |-> cache, ret |-> g.ret]
          /\ origin' = [k \in Keys |-> IF Has(g.cache, k) THEN origin[k] ELSE NoOut]
    /\ ev' = NoEvent
    /\ UNCHANGED << now, pc, call, sent >>

\* a direct cache.set(key, value), as the cache tests make
Set(key, value) ==
    /\ LET c == CacheSet(cache, key, value, now)
       IN /\ cache' = c
          /\ last' = [op |-> "set", key |-> key, arg |-> Some(value), at |-> now,
                      pre |-> cache, ret |-> Absent]
          /\ origin' = [k \in Keys |->
                          IF ~Has(c, k) THEN NoOut
                          ELSE IF k = key THEN Ok(value) ELSE origin[k]]
    /\ ev' = NoEvent
    /\ UNCHANGED << now, pc, call, sent >>

Next ==
    \/ \E t \in Tasks, q \in Queries, p \in Pages : Call(t, q, p)
    \/ \E t \in Tasks, r \in Replies : GetReply(t, r)
    \/ \E t \in Tasks, r \in Replies : PostReply(t, r)
    \/ \E t \in Tasks : Cancel(t)
    \/ Tick

\* concurrent search tasks over the shared cache
Spec == Init /\ [][Next]_vars

NextCache ==
    \/ \E k \in Keys : Get(k)
    \/ \E k \in Keys, v \in Values : Set(k, v)
    \/ Tick

\* a SearchCache driven directly
SpecCache == Init /\ [][NextCache]_vars

(* ------------------- one client, every state-field shape --------------- *)
\* how a hidden control may stand in the step-1 document: not there, there
\* without a value attribute, with an empty value, with a value
Shapes == {"absent", "novalue", "empty", "value"}

Control(name, shape, value) ==
    IF shape = "absent" THEN << >>
    ELSE << Input(name, shape # "novalue", IF shape = "value" THEN value ELSE "") >>

FieldDoc(vs, gen, val) ==
    [inputs |-> Control("__VIEWSTATE", vs, "vs1")
                \o Control("__VIEWSTATEGENERATOR", gen, "g1")
                \o Control("__EVENTVALIDATION", val, "ev1"),
     results |-> [kind |-> "none", rows |-> << >>],
     paging |-> [kind |-> "none", links |-> << >>]]

FieldReplies == {Reply("ok", 200, FieldDoc(vs, gen, val)) : vs, gen, val \in Shapes}

NextFields ==
    \/ \E q \in Queries, p \in Pages : Call(1, q, p)
    \/ \E r \in FieldReplies : GetReply(1, r)
    \/ \E r \in Replies : PostReply(1, r)
    \/ Tick

\* one search task at a time, its GET answered by a document with the three
\* state fields in every combination of shapes
SpecFields == Init /\ [][NextFields]_vars

(* ----------------------- the extractors on their own ------------------- *)
SeqsUpTo(S, n) == UNION {[1..k -> S] : k \in 0..n}

\* texts of the links of the pagination table: page numbers, the ellipsis and
\* the forward link, a signed number, an empty link
Labels == {"1", "3", "12", "...", "Next", "-4", ""}

PagingDoc(paging) ==
    [inputs |-> << >>, results |-> [kind |-> "none", rows |-> << >>],
     paging |-> paging]

PagingDocs ==
    {PagingDoc([kind |-> "none", links |-> << >>])}
    \cup {PagingDoc([kind |-> "table", links |-> ls]) : ls \in SeqsUpTo(Labels, MaxLinks)}

\* hidden controls: the three state fields and an unrelated one, each without
\* a value attribute, with an empty one, or with a value
Inputs ==
    {Input(n, hv[1], hv[2]) :
        n \in {AspFieldNames[i] : i \in 1..3} \cup {"q"},
        hv \in {<< FALSE, "" >>, << TRUE, "" >>, << TRUE, "v1" >>}}

InputDocs ==
    {[inputs |-> ins, results |-> [kind |-> "none", rows |-> << >>],
      paging |-> [kind |-> "none", links |-> << >>]] : ins \in SeqsUpTo(Inputs, MaxInputs)}

\* result rows: the number label absent, numeric or not; the link absent, with
\* a site-relative href, or without href; the badge absent or not; and a row
\* with no cell the parser looks for
Rows ==
    {Row(n, l, b, Icon({"fa", "status_code_y"})) :
        n \in {NoneVal, Text("42"), Text("x")},
        l \in {NoneVal, Link("T1", TRUE, "/docs/1"), Link("T2", FALSE, "")},
        b \in {NoneVal, Text("Zakon")}}
    \cup {Row(NoneVal, NoneVal, NoneVal, NoneVal)}

ResultDoc(results) ==
    [inputs |-> << >>, results |-> results,
     paging |-> [kind |-> "none", links |-> << >>]]

ResultDocs ==
    {ResultDoc([kind |-> k, rows |-> << >>]) : k \in {"none", "notable"}}
    \cup {ResultDoc([kind |-> "table", rows |-> rs]) : rs \in SeqsUpTo(Rows, MaxRows)}

\* a document of one of the three families is handed to its extractor; the
\* search tasks stay idle
InitParse ==
    /\ cache = << >>
    /\ now = 0
    /\ pc = [t \in Tasks |-> "idle"]
    /\ call = [t \in Tasks |-> NoCall]
    /\ sent = [t \in Tasks |-> << >>]
    /\ ev = NoEvent
    /\ origin = [k \in Keys |-> NoOut]
    /\ last \in {[op |-> "document", for |-> "get_total_pages", arg |-> d] : d \in PagingDocs}
           \cup {[op |-> "document", for |-> "extract_asp_fields", arg |-> d] : d \in InputDocs}
           \cup {[op |-> "document", for |-> "parse_documents", arg |-> d] : d \in ResultDocs}

Extracted(op, ret) ==
    /\ last.op = "document"
    /\ last.for = op
    /\ last' = [op |-> op, arg |-> last.arg, ret |-> ret]
    /\ UNCHANGED << cache, now, pc, call, sent, ev, origin >>

GetTotalPages == Extracted("get_total_pages", get_total_pages(last.arg))

ExtractAspFields == Extracted("extract_asp_fields", extract_asp_fields(last.arg))

ParseDocuments == Extracted("parse_documents", parse_documents(last.arg))

NextParse ==
    \/ GetTotalPages
    \/ ExtractAspFields
    \/ ParseDocuments

\* the three extractors applied to documents of every bounded shape
SpecParse == InitParse /\ [][NextParse]_vars

(* --------------------------- the key on its own ------------------------ *)
\* query strings as the route takes them, unchanged: empty, plain, ending in
\* digits, and holding the separator before, between and after digits
KeyQueries == {"", "a", "a1", "a:", "a:1", "a:1:", "a:1:2", "a:12", ":", ":1", "1", "1:1"}

\* a request with its two parameters validated
InitKeys ==
    /\ cache = << >>
    /\ now = 0
    /\ pc = [t \in Tasks |-> "idle"]
    /\ call = [t \in Tasks |-> NoCall]
    /\ sent = [t \in Tasks |-> << >>]
    /\ ev = NoEvent
    /\ origin = [k \in Keys |-> NoOut]
    /\ last \in {[op |-> "request", searchtitle |-> q, page |-> p] :
                    q \in KeyQueries, p \in PAGE_GE..PAGE_LE}

\* the first statement of the handler
BuildKey ==
    /\ last.op = "request"
    /\ last' = [op |-> "cache_key", searchtitle |-> last.searchtitle, page |-> last.page,
                ret |-> cache_key(last.searchtitle, last.page)]
    /\ UNCHANGED << cache, now, pc, call, sent, ev, origin >>

NextKeys == BuildKey

\* the key of every bounded query on every page of the route
SpecKeys == InitKeys /\ [][NextKeys]_vars

(* ------------------------------- claims -------------------------------- *)
Methods(reqs) == [i \in 1..Len(reqs) |-> reqs[i].method]

Range(c) == {c[i] : i \in 1..Len(c)}

TwoDigits(n) == Digits[(n \div 10) + 1] \o Digits[(n % 10) + 1]

TargetOf(n) == "ucFoundActsControl$rptPaging$ctl" \o TwoDigits(n) \o "$lbPaging"

EvKey == cache_key(ev.q, ev.p)

\* the event target of every page a request may ask to post for
TargetsPageMinusOne ==
    /\ \A p \in 2..PAGE_LE : event_target(p) = TargetOf(p - 1)
    /\ event_target(2) = "ucFoundActsControl$rptPaging$ctl01$lbPaging"
    /\ event_target(3) = "ucFoundActsControl$rptPaging$ctl02$lbPaging"

\* C1 as stated: every POST of search(q, p) carries the event target whose
\* index is p - 2 in two digits (page 2 sends ctl00, page 3 sends ctl01).
C1_TargetIsPageMinusTwo ==
    \A t \in Tasks : \A i \in 1..Len(sent[t]) :
        sent[t][i].method = "POST" =>
            sent[t][i].data.EVENTTARGET = TargetOf(call[t].p - 2)

\* C1 amended: every POST of search(q, p) carries the event target whose index
\* is p - 1 in two digits, for the posts the tasks issue and for every page in
\* 2..100 (page 2 sends ctl01, page 3 sends ctl02).
C1_TargetIsPageMinusOne ==
    /\ \A t \in Tasks : \A i \in 1..Len(sent[t]) :
          sent[t][i].method = "POST" =>
              sent[t][i].data.EVENTTARGET = TargetOf(call[t].p - 1)
    /\ TargetsPageMinusOne

C1_Witness ==
    \E t \in Tasks :
        /\ pc[t] = "post"
        /\ call[t].p = 2
        /\ sent[t][2].data.EVENTTARGET = "ucFoundActsControl$rptPaging$ctl01$lbPaging"

\* C2: on a miss with a successful upstream, a page-1 search issues exactly
\* one request, a GET; a search of a later page whose step-1 document holds
\* the __VIEWSTATE control issues exactly two, the GET and then the POST.
C2_RequestCounts ==
    /\ (ev.step = "call" /\ ev.to # "done") => Methods(ev.sent) = << "GET" >>
    /\ (ev.step = "get_reply" /\ ev.reply.kind = "ok" /\ ev.p = 1) =>
          (ev.to = "done" /\ Methods(ev.sent) = << "GET" >>)
    /\ (/\ ev.step = "get_reply"
        /\ ev.reply.kind = "ok"
        /\ ev.p > 1
        /\ FindInput(ev.reply.doc, "__VIEWSTATE") # 0) =>
          (ev.to = "post" /\ Methods(ev.sent) = << "GET", "POST" >>)
    /\ (ev.step = "post_reply" /\ ev.reply.kind = "ok") =>
          (ev.to = "done" /\ Methods(ev.sent) = << "GET", "POST" >>)

\* C3: a search whose key is stored with now - insertion_time < ttl issues no
\* upstream request and returns the result that the call which stored the
\* entry returned; the store is left as it was.
C3_HitWithinTtl ==
    /\ \A i \in 1..Len(cache) : origin[cache[i].key] = Ok(cache[i].value)
    /\ (/\ ev.step = "call"
        /\ Found(ev.pre, EvKey).kind = "entry"
        /\ now - Found(ev.pre, EvKey).ts < Ttl) =>
          /\ ev.to = "done"
          /\ ev.sent = << >>
          /\ ev.out = origin[EvKey]
          /\ cache = ev.pre

C3_Witness ==
    /\ ev.step = "call"
    /\ ev.to = "done"
    /\ ev.sent = << >>
    /\ ev.out.kind = "ok"
    /\ ev.p > 1
    /\ Len(ev.out.value.documents) > 0

\* C4: a search whose key is stored with now - insertion_time >= ttl is not
\* served from the store: it returns nothing at that point, issues a fresh GET
\* and goes on exactly as a miss does, the expired entry removed.
C4_ExpiredRefetched ==
    (/\ ev.step = "call"
     /\ Found(ev.pre, EvKey).kind = "entry"
     /\ now - Found(ev.pre, EvKey).ts >= Ttl) =>
        /\ ev.to = "get"
        /\ ev.out = NoOut
        /\ ev.sent = << GetRequest >>
        /\ pc[ev.task] = "get"
        /\ sent[ev.task] = << GetRequest >>
        /\ ~Has(cache, EvKey)

C4_Witness ==
    /\ ev.step = "call"
    /\ Found(ev.pre, EvKey).kind = "entry"
    /\ now - Found(ev.pre, EvKey).ts = Ttl
    /\ ev.to = "get"
    /\ ev.p > 1

\* C5: the store never holds more than max_size entries, and never two
\* entries for one key, under every interleaving of the search tasks.
C5_SizeBounded ==
    /\ Len(cache) <= MaxSize
    /\ \A i, j \in 1..Len(cache) : cache[i].key = cache[j].key => i = j

C5_Witness ==
    /\ ev.step # "none"
    /\ ev.wrote
    /\ Len(ev.pre) = MaxSize
    /\ ~Has(ev.pre, EvKey)
    /\ Len(cache) = MaxSize
    /\ \E t \in Tasks : pc[t] # "idle"

\* C6: a set of a new key on a full store removes exactly one entry, one with
\* the least timestamp, keeps every other entry as it was and stores the key.
C6_EvictsOldestOnly ==
    (/\ last.op = "set"
     /\ Len(last.pre) = MaxSize
     /\ ~Has(last.pre, last.key)) =>
        \E i \in 1..Len(last.pre) :
            /\ \A j \in 1..Len(last.pre) : last.pre[i].ts <= last.pre[j].ts
            /\ Range(cache) =
                 (Range(last.pre) \ {last.pre[i]})
                    \cup {Entry(last.key, last.at, last.arg.value)}
            /\ Len(cache) = MaxSize

C6_Witness ==
    /\ last.op = "set"
    /\ Len(last.pre) = MaxSize
    /\ ~Has(last.pre, last.key)
    /\ last.pre[1].ts < last.pre[2].ts
    /\ ~Has(cache, last.pre[1].key)
    /\ Found(cache, last.pre[2].key) = Found(last.pre, last.pre[2].key)
    /\ Has(cache, last.key)

\* C7: a set evicts only when the store is full and the key is new; a set of
\* a key already stored replaces that key's entry and leaves the others as
\* they were, also on a full store.
C7_NoEvictionOnOverwrite ==
    (last.op = "set" /\ Has(last.pre, last.key)) =>
        Range(cache) =
            (Range(last.pre) \ {last.pre[IndexOf(last.pre, last.key)]})
                \cup {Entry(last.key, last.at, last.arg.value)}

\* C8: get returns the stored value exactly when the key is stored with
\* now - insertion_time < ttl; on a stored key of age >= ttl it returns absent
\* and removes that entry and no other; on a key not stored it returns absent
\* and changes nothing.
C8_GetContract ==
    last.op = "get" =>
        LET e == Found(last.pre, last.key)
        IN IF e.kind = "entry" /\ last.at - e.ts < Ttl
           THEN last.ret = Some(e.value) /\ cache = last.pre
           ELSE IF e.kind = "entry"
           THEN /\ last.ret = Absent
                /\ cache = SelectSeq(last.pre, LAMBDA x : x.key # last.key)
                /\ Len(cache) = Len(last.pre) - 1
           ELSE last.ret = Absent /\ cache = last.pre

C8_Witness ==
    /\ last.op = "get"
    /\ Len(last.pre) = 2
    /\ Found(last.pre, last.key).kind = "entry"
    /\ last.at - Found(last.pre, last.key).ts = Ttl
    /\ last.ret = Absent
    /\ Len(cache) = 1

\* C9: a search of a later page whose step-1 document lacks the __VIEWSTATE
\* control fails with status 500, has issued the GET and no POST, and leaves
\* the store as it was.
C9_MissingViewState ==
    (/\ ev.step = "get_reply"
     /\ ev.reply.kind = "ok"
     /\ ev.p > 1
     /\ FindInput(ev.reply.doc, "__VIEWSTATE") = 0) =>
        /\ ev.to = "failed"
        /\ ev.out.kind = "error"
        /\ ev.out.status = 500
        /\ Methods(ev.sent) = << "GET" >>
        /\ ~ev.wrote
        /\ cache = ev.pre
        /\ pc[ev.task] = "idle"

C9_Witness ==
    /\ ev.step = "get_reply"
    /\ ev.reply.kind = "ok"
    /\ ev.p > 1
    /\ FindInput(ev.reply.doc, "__VIEWSTATE") = 0
    /\ ev.to = "failed"
    /\ Len(cache) > 0

\* C10: a search that ends in a failure leaves the store as it was, and the
\* store is written only by a stretch that consumed a successful reply, the
\* POST being issued only after a successful GET.
C10_NoWriteOnFailure ==
    /\ ev.step \in {"get_reply", "post_reply"} =>
          /\ ev.to = "failed" => (~ev.wrote /\ cache = ev.pre)
          /\ ev.reply.kind # "ok" => (ev.to = "failed" /\ cache = ev.pre)
          /\ cache # ev.pre => (ev.wrote /\ ev.reply.kind = "ok" /\ ev.to = "done")
          /\ ev.to = "post" => ev.reply.kind = "ok"
    /\ ev.step = "call" => ~ev.wrote

C10_Witness ==
    /\ ev.step = "post_reply"
    /\ ev.to = "failed"
    /\ ev.reply.kind = "transport"
    /\ Len(cache) = MaxSize


\* C11: a non-success status on the GET or on the POST ends the call with an
\* error carrying exactly that status, and a transport failure on either ends
\* it with status 503.
C11_FailureStatus ==
    (ev.step \in {"get_reply", "post_reply"} /\ ev.reply.kind # "ok") =>
        /\ ev.to = "failed"
        /\ ev.out.kind = "error"
        /\ ev.reply.kind = "status" => ev.out.status = ev.reply.status
        /\ ev.reply.kind = "transport" => ev.out.status = 503

C11_Witness ==
    /\ ev.step = "post_reply"
    /\ ev.reply.kind = "status"
    /\ ev.reply.status = 404
    /\ ev.out.status = 404

\* C12: every result a search call returns, fetched or served from the store,
\* has current_page equal to the page the call asked for, and so has every
\* result held in the store under the key of a (query, page) pair.
C12_CurrentPage ==
    /\ (ev.step # "none" /\ ev.to = "done") =>
          /\ ev.out.kind = "ok"
          /\ ev.out.value.current_page = ev.p
    /\ \A q \in Queries, p \in Pages :
          Has(cache, cache_key(q, p)) =>
              Found(cache, cache_key(q, p)).value.current_page = p

C12_Witness ==
    /\ ev.step = "call"
    /\ ev.to = "done"
    /\ ev.p = PAGE_LE
    /\ ev.out.value.current_page = PAGE_LE
    /\ \E u \in Tasks : pc[u] = "post" /\ call[u].p # ev.p


\* the value int() gives each numeric label; the other labels raise ValueError
LabelValue == [l \in {"1", "3", "12", "-4", "42"} |->
                 CASE l = "1" -> 1 [] l = "3" -> 3 [] l = "12" -> 12
                   [] l = "-4" -> 0 - 4 [] l = "42" -> 42]

Largest(S) == CHOOSE m \in S : \A n \in S : n <= m

\* C13: get_total_pages returns the largest of 1 and the numeric link labels,
\* skipping the labels that are not numbers, and 1 when the pagination table
\* is absent or has no numeric link; the result is never below 1.
C13_TotalPages ==
    last.op = "get_total_pages" =>
        LET paging == last.arg.paging
            links == paging.links
            nums == {LabelValue[links[i]] :
                        i \in {j \in 1..Len(links) : links[j] \in DOMAIN LabelValue}}
        IN /\ last.ret = IF paging.kind = "none" THEN 1 ELSE Largest(nums \cup {1})
           /\ last.ret >= 1

C13_Witness ==
    /\ last.op = "get_total_pages"
    /\ last.arg.paging.links = << "3", "...", "12" >>
    /\ last.ret = 12

\* C14: extract_asp_fields returns a mapping whose keys are exactly the state
\* field names that have a hidden control in the document, each mapped to the
\* value of its first control, the empty string when that control has no value
\* attribute; an absent control gives no key.
C14_AspFields ==
    last.op = "extract_asp_fields" =>
        LET ins == last.arg.inputs
            names == {"__VIEWSTATE", "__VIEWSTATEGENERATOR", "__EVENTVALIDATION"}
            present == {n \in names : \E i \in 1..Len(ins) : ins[i].name = n}
            first(n) == CHOOSE i \in 1..Len(ins) :
                            /\ ins[i].name = n
                            /\ \A j \in 1..Len(ins) : ins[j].name = n => i <= j
        IN /\ DOMAIN last.ret = present
           /\ \A n \in present :
                 last.ret[n] = IF ins[first(n)].hasvalue THEN ins[first(n)].value ELSE ""

C14_Witness ==
    /\ last.op = "extract_asp_fields"
    /\ last.arg.inputs = << Input("__VIEWSTATE", FALSE, ""),
                            Input("__EVENTVALIDATION", TRUE, "v1") >>
    /\ DOMAIN last.ret = {"__VIEWSTATE", "__EVENTVALIDATION"}
    /\ last.ret["__VIEWSTATE"] = ""

\* C15: parse_documents returns the empty sequence when the results container
\* is absent or holds no table, and otherwise one record per result row in
\* document order, whose number is None exactly when the row's label is absent
\* or not numeric and whose badge is None exactly when the row has no badge.
C15_Documents ==
    last.op = "parse_documents" =>
        LET results == last.arg.results
            rows == results.rows
        IN /\ results.kind # "table" => last.ret = << >>
           /\ results.kind = "table" =>
                 /\ Len(last.ret) = Len(rows)
                 /\ \A i \in 1..Len(rows) :
                       LET numeric == /\ rows[i].number.kind = "text"
                                      /\ rows[i].number.text \in DOMAIN LabelValue
                       IN /\ last.ret[i].title =
                                IF rows[i].link.kind = "link" THEN rows[i].link.text ELSE ""
                          /\ last.ret[i].number =
                                IF numeric
                                THEN [kind |-> "int", n |-> LabelValue[rows[i].number.text]]
                                ELSE NoneVal
                          /\ last.ret[i].badge =
                                IF rows[i].badge.kind = "text" THEN rows[i].badge ELSE NoneVal

C15_Witness ==
    /\ last.op = "parse_documents"
    /\ Len(last.ret) = 2
    /\ last.arg.results.rows[1].number = Text("x")
    /\ last.ret[1].number = NoneVal
    /\ last.ret[1].badge = NoneVal
    /\ last.ret[1].title = "T2"
    /\ last.ret[2].number = [kind |-> "int", n |-> 42]
    /\ last.ret[2].title = "T1"


\* C16: a call that finds no fresh entry for its key while another task is
\* awaiting the GET of the same (query, page) is not held back: it issues a GET
\* of its own, so two GETs for one key are in flight together.
C16_NoSingleFlight ==
    (/\ ev.step = "call"
     /\ ev.to # "done"
     /\ \E u \in Tasks : /\ u # ev.task
                         /\ pc[u] = "get"
                         /\ call[u].q = ev.q
                         /\ call[u].p = ev.p) =>
        /\ pc[ev.task] = "get"
        /\ \A t \in Tasks :
              (pc[t] = "get" /\ call[t].q = ev.q /\ call[t].p = ev.p) =>
                  sent[t] = << GetRequest >>

C16_Witness ==
    /\ ev.step = "call"
    /\ ~Has(ev.pre, EvKey)
    /\ \A t \in Tasks : /\ pc[t] = "get"
                         /\ call[t].q = ev.q
                         /\ call[t].p = ev.p
                         /\ sent[t] = << GetRequest >>

\* C17: a task cancelled while suspended at its GET or its POST leaves the
\* store as it was and ends without having called cache.set; the store is
\* written only by a task that ran on from a reply.
C17_CancelWritesNothing ==
    /\ ev.step = "cancel" =>
          /\ cache = ev.pre
          /\ ~ev.wrote
          /\ ev.out = NoOut
          /\ pc[ev.task] = "idle"
          /\ sent[ev.task] = << >>
    /\ (ev.step # "none" /\ ev.wrote) => ev.step \in {"get_reply", "post_reply"}

C17_Witness ==
    /\ ev.step = "cancel"
    /\ Methods(ev.sent) = << "GET", "POST" >>
    /\ ~Has(cache, EvKey)
    /\ cache = ev.pre

\* C18: a call issues at most one GET and then at most one POST, the POST only
\* on a GET that returned a success status, and an upstream failure ends the
\* call with no request added.
C18_NoRetries ==
    /\ \A t \in Tasks :
          /\ pc[t] = "idle" => sent[t] = << >>
          /\ pc[t] = "get" => Methods(sent[t]) = << "GET" >>
          /\ pc[t] = "post" => Methods(sent[t]) = << "GET", "POST" >>
    /\ ev.step # "none" =>
          /\ Methods(ev.sent) \in {<< >>, << "GET" >>, << "GET", "POST" >>}
          /\ (ev.step = "get_reply" /\ ev.to = "post") => ev.reply.kind = "ok"
          /\ (ev.step \in {"get_reply", "post_reply"} /\ ev.reply.kind # "ok") =>
                /\ ev.to = "failed"
                /\ pc[ev.task] = "idle"
                /\ Len(ev.sent) = IF ev.step = "get_reply" THEN 1 ELSE 2

C18_Witness ==
    /\ ev.step = "post_reply"
    /\ ev.reply.kind = "transport"
    /\ ev.to = "failed"
    /\ Methods(ev.sent) = << "GET", "POST" >>
    /\ pc[ev.task] = "idle"


\* the index of the first hidden control of the replied document with this
\* name, 0 if it has none
EvControl(name) ==
    LET ins == ev.reply.doc.inputs
    IN IF \E i \in 1..Len(ins) : ins[i].name = name
       THEN CHOOSE i \in 1..Len(ins) :
               /\ ins[i].name = name
               /\ \A j \in 1..Len(ins) : ins[j].name = name => i <= j
       ELSE 0

\* the value of that control: "" if it is absent or has no value attribute
EvControlValue(name) ==
    IF EvControl(name) = 0 THEN ""
    ELSE LET field == ev.reply.doc.inputs[EvControl(name)]
         IN IF field.hasvalue THEN field.value ELSE ""

\* C19: for a page above 1, a GET answered with a success status ends in the
\* missing-state error only when the step-1 document has no __VIEWSTATE
\* control; whenever the control is there, with an empty value or with no
\* value attribute too, the POST is built and sent.
C19_FailsOnlyWhenAbsent ==
    (ev.step = "get_reply" /\ ev.reply.kind = "ok" /\ ev.p > 1) =>
        /\ ev.to = "failed" => EvControl("__VIEWSTATE") = 0
        /\ EvControl("__VIEWSTATE") # 0 =>
              /\ ev.to = "post"
              /\ Methods(ev.sent) = << "GET", "POST" >>

\* C20: the payload of every POST has __EVENTARGUMENT empty and the three
\* state fields, each with the value of its control in the document the same
\* call's GET returned, or empty when the document has no such control.
C20_PostPayload ==
    (ev.step = "get_reply" /\ ev.to = "post") =>
        /\ Len(ev.sent) = 2
        /\ sent[ev.task] = ev.sent
        /\ LET data == ev.sent[2].data
           IN /\ data.EVENTARGUMENT = ""
              /\ data.VIEWSTATE = EvControlValue("__VIEWSTATE")
              /\ data.VIEWSTATEGENERATOR = EvControlValue("__VIEWSTATEGENERATOR")
              /\ data.EVENTVALIDATION = EvControlValue("__EVENTVALIDATION")

C20_Witness ==
    /\ ev.step = "get_reply"
    /\ ev.to = "post"
    /\ EvControl("__VIEWSTATEGENERATOR") = 0
    /\ ev.sent[2].data.EVENTARGUMENT = ""
    /\ ev.sent[2].data.VIEWSTATE = "vs1"
    /\ ev.sent[2].data.VIEWSTATEGENERATOR = ""
    /\ ev.sent[2].data.EVENTVALIDATION = "ev1"


\* C21: a get that returns a stored value, and a get of a key that is not
\* stored, leave the store as it was, entry by entry and in order, so whatever
\* set comes next gives the store it would have given without the get.
C21_ReadsKeepStore ==
    (/\ last.op = "get"
     /\ (last.ret.kind = "some" \/ ~Has(last.pre, last.key))) =>
        /\ cache = last.pre
        /\ \A k \in Keys, v \in Values, t \in now..MaxTime :
              CacheSet(cache, k, v, t) = CacheSet(last.pre, k, v, t)

C21_Witness ==
    /\ last.op = "get"
    /\ last.ret.kind = "some"
    /\ Len(last.pre) = MaxSize
    /\ last.key = last.pre[1].key
    /\ cache = last.pre
    /\ \E k \in Keys : /\ ~Has(cache, k)
                        /\ ~Has(CacheSet(cache, k, last.ret.value, now), last.key)


\* C22: two different (query, page) pairs, the query with or without ':' and
\* digits and the page in 1..100, never get the same key, so a value stored
\* under the key of one pair is returned by get only under that pair's key.
C22_KeyInjective ==
    last.op = "cache_key" =>
        LET stored == CacheSet(<< >>, last.ret, last.page, now)
        IN \A q \in KeyQueries, p \in PAGE_GE..PAGE_LE :
              (\/ cache_key(q, p) = last.ret
               \/ CacheGet(stored, cache_key(q, p), now).ret.kind = "some") =>
                  (q = last.searchtitle /\ p = last.page)

C22_Witness ==
    /\ last.op = "cache_key"
    /\ last.searchtitle = "a:1"
    /\ last.page = 2
    /\ last.ret = "a:1:2"
    /\ cache_key("a:1:2", 1) # last.ret
    /\ cache_key("a", 12) # last.ret


\* the entries of the store before the latest set whose key the set removed
Evicted == {i \in 1..Len(last.pre) : ~Has(cache, last.pre[i].key)}

\* an entry of that store whose age had reached the ttl when the set ran
Expired(i) == last.at - last.pre[i].ts >= Ttl

\* C23: a set on a full store removes at most one entry, one whose age is the
\* greatest in the store, so never an unexpired entry while an expired one is
\* stored; expired entries count toward capacity like any other, and the ones
\* not removed stay stored, expired or not.
C23_EvictsOldestNotFresh ==
    (last.op = "set" /\ Len(last.pre) >= MaxSize) =>
        /\ Cardinality(Evicted) <= 1
        /\ Len(last.pre) = MaxSize
        /\ \A i \in Evicted :
              /\ \A j \in 1..Len(last.pre) :
                    last.at - last.pre[i].ts >= last.at - last.pre[j].ts
              /\ (\E j \in 1..Len(last.pre) : Expired(j)) => Expired(i)
        /\ \A j \in 1..Len(last.pre) :
              (j \notin Evicted /\ last.pre[j].key # last.key) =>
                  last.pre[j] \in Range(cache)
        /\ \A i \in 1..Len(last.pre) : last.pre[i].ts <= last.at

C23_Witness ==
    /\ last.op = "set"
    /\ Len(last.pre) = MaxSize
    /\ ~Has(last.pre, last.key)
    /\ Expired(1)
    /\ ~Expired(2)
    /\ Evicted = {1}
    /\ last.pre[2] \in Range(cache)
    /\ Len(cache) = MaxSize

====
